---- MODULE Spec2Model ----
(***************************************************************************)
(* Model of elder_risk/utils/data_utils.py: extract_nested_archives and    *)
(* its helpers (_extract_recursive_flat, _extract_recursive_nested,        *)
(* _is_archive, _get_unique_path, _move_file_to_destination).              *)
(*                                                                         *)
(* A path is a sequence of components (strings).  A file's content is the  *)
(* identity of the archive member it was unpacked from (a node).  The      *)
(* extraction collaborator (patoolib) and the directory enumeration        *)
(* (Path.rglob) are the environment: they are modelled by what they do to  *)
(* the filesystem.                                                         *)
(***************************************************************************)
EXTENDS Integers, Sequences, FiniteSets, TLC

(***************************************************************************)
(* Bounds of the model.                                                    *)
(***************************************************************************)
MaxDepthArg == 3    \* max_depth ranges over 0..MaxDepthArg
MaxEntries  == 2    \* members per archive
MaxFaults   == 1    \* failures of the caller's functions and of shutil.move per call
MaxPathLen  == 5    \* longest directory path the filesystem accepts

(***************************************************************************)
(* The universe of archive members.  Node 1 is the root archive A.zip,     *)
(* node 2 the archive B.rar, nodes 3 and 4 two different files that are    *)
(* both called data.bin.                                                   *)
(***************************************************************************)
Nodes == {1, 2, 3, 4}
ArchiveNodes == {1, 2}
RootNode == 1

NameOf(n) == CASE n = 1 -> [stem |-> "A", suffix |-> ".zip"]
               [] n = 2 -> [stem |-> "B", suffix |-> ".rar"]
               [] OTHER -> [stem |-> "data", suffix |-> ".bin"]

\* Path.name: stem and suffix joined.
Render(nm) == nm.stem \o nm.suffix

FileName(n) == Render(NameOf(n))

BaseNames == {FileName(n) : n \in Nodes}

\* Path.stem and Path.suffix of a final component (the names of the universe).
Split(name) == CHOOSE nm \in {NameOf(n) : n \in Nodes} : Render(nm) = name
Stem(name) == Split(name).stem
Suffix(name) == Split(name).suffix

NoDir == << >>
SubDir == <<"sub">>
Entry(d, n) == [dir |-> d, node |-> n]

\* The members an archive of the universe may hold.
MemberChoices(a) ==
    IF a = RootNode
    THEN {Entry(NoDir, 2), Entry(SubDir, 2), Entry(NoDir, 4)}
    ELSE {Entry(NoDir, 3), Entry(NoDir, 2)}

SmallSubsets(S) == {T \in SUBSET S : Cardinality(T) <= MaxEntries}

RECURSIVE Reach(_, _, _)
Reach(c, seen, k) ==
    IF k = 0 THEN seen
    ELSE Reach(c, seen \cup {e.node : e \in UNION {c[a] : a \in seen \cap ArchiveNodes}}, k - 1)

\* Archives that cannot be reached from the root hold nothing; an archive that
\* holds a copy of itself holds nothing else.
Layouts ==
    {c \in [ArchiveNodes -> SUBSET (UNION {MemberChoices(a) : a \in ArchiveNodes})] :
        /\ \A a \in ArchiveNodes : c[a] \in SmallSubsets(MemberChoices(a))
        /\ \A a \in ArchiveNodes : (\E e \in c[a] : e.node = a) => Cardinality(c[a]) = 1
        /\ \A a \in ArchiveNodes :
              a \notin Reach(c, {RootNode}, Cardinality(ArchiveNodes)) => c[a] = {}}

(***************************************************************************)
(* Paths.                                                                  *)
(***************************************************************************)
OutRoot == <<"out">>
InputArchive == <<"in", FileName(RootNode)>>
TmpRoot == <<"tmp">>

Parent(p) == SubSeq(p, 1, Len(p) - 1)
Last(p) == p[Len(p)]
IsPrefix(d, p) == Len(d) <= Len(p) /\ SubSeq(p, 1, Len(d)) = d
Under(d, p) == Len(d) < Len(p) /\ IsPrefix(d, p)

\* should_extract: None, or a caller's predicate (a white list of file names).
NoFilter == [given |-> FALSE, accept |-> {}]
WhiteList(S) == [given |-> TRUE, accept |-> S]
FilterChoices == {NoFilter} \cup {WhiteList(BaseNames \ {n}) : n \in {FileName(2), FileName(3)}}

\* Names of files that may already lie in the output directory before the call
\* (their content is 0, the content of no archive member).
PreexistingChoices == {{}, {FileName(3)}}

VARIABLES
    flatten,           \* argument flatten
    max_depth,         \* argument max_depth
    should_extract,    \* argument should_extract: NoFilter or the accepted names
    extract_callback,  \* argument extract_callback: TRUE when one is supplied
    legacyGlob,        \* rglob re-lists a directory's subdirectories after yielding its files
    contents,          \* what the collaborator unpacks from each archive
    fs,                \* the files: path -> [node: content, chain: the archives it was unpacked through]
    dirs,              \* the directories
    stack,             \* the frames of the recursive helper, innermost last
    pc,                \* "start", "running", "raising", "returned", "raised"
    result,            \* the list extract_nested_archives returned
    cbLog,             \* the paths passed to extract_callback, in order
    corrupt,           \* the archives the collaborator fails to unpack
    origin,            \* flatten mode: destination -> the scratch path the file was moved from
    nextTmp,           \* scratch directories created so far
    extractCount,      \* invocations of the collaborator so far
    faults             \* environment failures injected so far

vars == <<flatten, max_depth, should_extract, extract_callback, legacyGlob, contents,
          fs, dirs, stack, pc, result, cbLog, corrupt, origin, nextTmp, extractCount, faults>>

args == <<flatten, max_depth, should_extract, extract_callback, legacyGlob, contents, corrupt>>

File(n, chain) == [node |-> n, chain |-> chain]

Exists(p) == p \in DOMAIN fs \/ p \in dirs

Put(f, p, n) == [q \in DOMAIN f \cup {p} |-> IF q = p THEN n ELSE f[q]]
Remove(f, p) == [q \in DOMAIN f \ {p} |-> f[q]]

Init ==
    /\ flatten \in BOOLEAN
    /\ max_depth \in 0..MaxDepthArg
    /\ should_extract \in FilterChoices
    /\ extract_callback \in BOOLEAN
    /\ legacyGlob \in BOOLEAN
    /\ flatten => ~legacyGlob
    /\ contents \in Layouts
    /\ corrupt \in SUBSET (ArchiveNodes \cap Reach(contents, {RootNode}, Cardinality(ArchiveNodes)))
    /\ \E pre \in PreexistingChoices, present \in BOOLEAN :
          /\ ~flatten => pre = {}
          /\ ~present => contents = [a \in ArchiveNodes |-> {}]
          /\ fs = [p \in (IF present THEN {InputArchive} ELSE {})
                            \cup {OutRoot \o <<n>> : n \in pre} |->
                      IF p = InputArchive THEN File(RootNode, << >>) ELSE File(0, << >>)]
          /\ dirs = {TmpRoot, Parent(InputArchive)} \cup (IF pre = {} THEN {} ELSE {OutRoot})
    /\ stack = << >>
    /\ pc = "start"
    /\ result = << >>
    /\ cbLog = << >>
    /\ origin = << >>
    /\ nextTmp = 0
    /\ extractCount = 0
    /\ faults = 0

(***************************************************************************)
(* Helpers of the module.                                                  *)
(***************************************************************************)
\* _is_archive: the collaborator recognises the file's format.
_is_archive(file_path) == fs[file_path].node \in ArchiveNodes

\* should_extract(path), for a supplied predicate.
FilterAccepts(path) == Last(path) \in should_extract.accept

\* The destination without collision avoidance.
SameNamePath(directory, original_path) == directory \o <<Last(original_path)>>

\* A variant that tests the name once (an if in place of the while loop).
FirstSuffixOnly(directory, stem, suffix, counter) ==
    directory \o <<stem \o "_" \o ToString(counter) \o suffix>>

\* Lines 184-187: the while loop, entered with the counter at 1.
RECURSIVE UniqueLoop(_, _, _, _)
UniqueLoop(directory, stem, suffix, counter) ==
    LET final_path == directory \o <<stem \o "_" \o ToString(counter) \o suffix>>
    IN  IF Exists(final_path)
        THEN UniqueLoop(directory, stem, suffix, counter + 1)
        ELSE final_path

\* _get_unique_path
_get_unique_path(directory, original_path) ==
    LET final_path == directory \o <<Last(original_path)>>
    IN  IF ~Exists(final_path)
        THEN final_path
        ELSE UniqueLoop(directory, Stem(Last(original_path)), Suffix(Last(original_path)), 1)

\* The files and directories the collaborator writes when it unpacks the
\* archive at path `archive` into outdir (a file already there is overwritten).
Unpacked(archive, outdir) ==
    {[path |-> outdir \o e.dir \o <<FileName(e.node)>>,
      file |-> File(e.node, Append(fs[archive].chain, fs[archive].node))] :
        e \in contents[fs[archive].node]}
UnpackedDirs(archive, outdir) == {outdir \o e.dir : e \in contents[fs[archive].node]}

WriteAll(f, recs) ==
    [q \in DOMAIN f \cup {r.path : r \in recs} |->
        IF \E r \in recs : r.path = q THEN (CHOOSE r \in recs : r.path = q).file ELSE f[q]]

\* The collaborator raises on a corrupt archive (and then writes nothing).
ExtractionFails(archive) == fs[archive].node \in corrupt

\* shutil.move(source, dest_path)
Move(f, source, dest_path) == Put(Remove(f, source), dest_path, f[source])

\* TemporaryDirectory.__exit__: the files of the scratch directory are removed.
WithoutTree(f, d) == [q \in {p \in DOMAIN f : ~IsPrefix(d, p)} |-> f[q]]

Top == stack[Len(stack)]
Rest == SubSeq(stack, 1, Len(stack) - 1)
ReplaceTop(fr) == [stack EXCEPT ![Len(stack)] = fr]

CanFail == faults < MaxFaults

\* The innermost call returns `files` to its caller, which extends its own
\* extracted_files; the outermost call's list is the result.
ReturnToCaller(files) ==
    IF Len(stack) = 1
    THEN /\ stack' = << >>
         /\ result' = files
         /\ pc' = "returned"
    ELSE /\ stack' = [Rest EXCEPT ![Len(stack) - 1].out = @ \o files]
         /\ UNCHANGED <<result, pc>>

\* A variant in which the collaborator's exception is not handled.
PropagateFailure ==
    /\ pc' = "raising"
    /\ UNCHANGED <<stack, result>>

\* except Exception (lines 75-77 and 154-157): the failure is logged and the
\* call returns what it has, which is nothing.
OnExtractionFailure == ReturnToCaller(<< >>)

\* A variant that leaves the scratch directory behind.
DirsKept(ds, d) == ds

\* TemporaryDirectory.__exit__: the scratch directory is removed.
DirsWithoutTree(ds, d) == {p \in ds : ~IsPrefix(d, p)}

(***************************************************************************)
(* extract_nested_archives: the existence check, the output directory and  *)
(* the dispatch.                                                           *)
(***************************************************************************)
FlatFrame(archive, depth) ==
    [archive |-> archive, depth |-> depth, phase |-> "call", temp |-> << >>,
     todo |-> {}, out |-> << >>]

NestedFrame(archive, target_dir, depth) ==
    [archive |-> archive, target_dir |-> target_dir, depth |-> depth, phase |-> "call",
     extract_dir |-> << >>, todo |-> {}, pend |-> << >>, cur |-> << >>, out |-> << >>]

\* A variant that prepares the output directory before it looks for the archive.
MissingAfterMkdir ==
    /\ pc = "start"
    /\ ~Exists(InputArchive)
    /\ pc' = "raised"
    /\ dirs' = dirs \cup {OutRoot}
    /\ UNCHANGED <<args, fs, stack, result, cbLog, origin, nextTmp, extractCount, faults>>

CallMissing ==
    /\ pc = "start"
    /\ ~Exists(InputArchive)
    /\ pc' = "raised"
    /\ UNCHANGED <<args, fs, dirs, stack, result, cbLog, origin, nextTmp, extractCount, faults>>

CallStart ==
    /\ pc = "start"
    /\ Exists(InputArchive)
    /\ \E output_dir_given \in BOOLEAN :
          \* mkdtemp or mkdir(parents=True, exist_ok=True): the output root exists
          dirs' = dirs \cup {OutRoot}
    /\ stack' = IF flatten THEN <<FlatFrame(InputArchive, 0)>>
                           ELSE <<NestedFrame(InputArchive, OutRoot, 0)>>
    /\ pc' = "running"
    /\ UNCHANGED <<args, fs, result, cbLog, origin, nextTmp, extractCount, faults>>

(***************************************************************************)
(* _extract_recursive_flat                                                 *)
(***************************************************************************)
InFlat(phase) == pc = "running" /\ flatten /\ stack # << >> /\ Top.phase = phase

\* A variant that names the scratch directory after the archive alone.
SharedScratchName(archive) == TmpRoot \o <<Stem(Last(archive))>>

\* tempfile.TemporaryDirectory(prefix=archive.stem + "_"): a fresh directory.
ScratchName(archive) == TmpRoot \o <<Stem(Last(archive)) \o "_" \o ToString(nextTmp)>>

FlatDepthExhausted ==
    /\ InFlat("call")
    /\ Top.depth >= max_depth
    /\ ReturnToCaller(<< >>)
    /\ UNCHANGED <<args, fs, dirs, cbLog, origin, nextTmp, extractCount, faults>>

FlatExtract ==
    /\ InFlat("call")
    /\ Top.depth < max_depth
    /\ ~ExtractionFails(Top.archive)
    /\ LET temp_dir == ScratchName(Top.archive)
           recs == Unpacked(Top.archive, temp_dir)
       IN  /\ fs' = WriteAll(fs, recs)
           /\ dirs' = dirs \cup {temp_dir} \cup UnpackedDirs(Top.archive, temp_dir)
           /\ stack' = ReplaceTop([Top EXCEPT !.phase = "loop", !.temp = temp_dir,
                                              !.todo = {r.path : r \in recs}])
    /\ nextTmp' = nextTmp + 1
    /\ extractCount' = extractCount + 1
    /\ UNCHANGED <<args, pc, result, cbLog, origin, faults>>

\* The collaborator raises: the scratch directory is removed and [] returned.
FlatExtractFails ==
    /\ InFlat("call")
    /\ Top.depth < max_depth
    /\ ExtractionFails(Top.archive)
    /\ nextTmp' = nextTmp + 1
    /\ extractCount' = extractCount + 1
    /\ OnExtractionFailure
    /\ UNCHANGED <<args, fs, dirs, cbLog, origin, faults>>

\* A variant that compares the current depth, not the next one, to max_depth.
RecursesAtDepth(item) == _is_archive(item) /\ Top.depth < max_depth

\* Line 85: the entry is an archive and depth remains to recurse into it.
Recurses(item) == _is_archive(item) /\ Top.depth + 1 < max_depth

FlatRecurse ==
    /\ InFlat("loop")
    /\ \E item \in Top.todo :
          /\ Recurses(item)
          /\ stack' = Append(ReplaceTop([Top EXCEPT !.todo = @ \ {item}]),
                             FlatFrame(item, Top.depth + 1))
    /\ UNCHANGED <<args, fs, dirs, pc, result, cbLog, origin, nextTmp, extractCount, faults>>

\* _move_file_to_destination: should_extract raises; nothing catches it.
FlatFilterRaises ==
    /\ InFlat("loop")
    /\ should_extract.given
    /\ CanFail
    /\ \E item \in Top.todo : ~Recurses(item)
    /\ faults' = faults + 1
    /\ pc' = "raising"
    /\ UNCHANGED <<args, fs, dirs, stack, result, cbLog, origin, nextTmp, extractCount>>

\* _move_file_to_destination: the filter rejects the source; it is left in place.
FlatFiltered ==
    /\ InFlat("loop")
    /\ should_extract.given
    /\ \E item \in Top.todo :
          /\ ~Recurses(item)
          /\ ~FilterAccepts(item)
          /\ stack' = ReplaceTop([Top EXCEPT !.todo = @ \ {item}])
    /\ UNCHANGED <<args, fs, dirs, pc, result, cbLog, origin, nextTmp, extractCount, faults>>

\* A filter that lets everything through.
PassesAll(item) == TRUE

Passes(item) == ~should_extract.given \/ FilterAccepts(item)

\* A variant that moves the file to its own name in the output directory.
FlatPlaceOverName ==
    /\ InFlat("loop")
    /\ \E item \in Top.todo :
          /\ ~Recurses(item)
          /\ Passes(item)
          /\ LET dest_path == SameNamePath(OutRoot, item)
             IN  /\ fs' = Move(fs, item, dest_path)
                 /\ origin' = Put(origin, dest_path, [src |-> item, file |-> fs[item]])
                 /\ cbLog' = IF extract_callback THEN Append(cbLog, dest_path) ELSE cbLog
                 /\ stack' = ReplaceTop([Top EXCEPT !.todo = @ \ {item},
                                                    !.out = Append(@, dest_path)])
    /\ UNCHANGED <<args, dirs, pc, result, nextTmp, extractCount, faults>>

\* _move_file_to_destination: moved, callback (if any) returned, path recorded.
FlatPlace ==
    /\ InFlat("loop")
    /\ \E item \in Top.todo :
          /\ ~Recurses(item)
          /\ Passes(item)
          /\ LET dest_path == _get_unique_path(OutRoot, item)
             IN  /\ fs' = Move(fs, item, dest_path)
                 /\ origin' = Put(origin, dest_path, [src |-> item, file |-> fs[item]])
                 /\ cbLog' = IF extract_callback THEN Append(cbLog, dest_path) ELSE cbLog
                 /\ stack' = ReplaceTop([Top EXCEPT !.todo = @ \ {item},
                                                    !.out = Append(@, dest_path)])
    /\ UNCHANGED <<args, dirs, pc, result, nextTmp, extractCount, faults>>

\* A variant that calls extract_callback before it moves the file.
MoveFailsAfterCallback ==
    /\ InFlat("loop")
    /\ CanFail
    /\ \E item \in Top.todo :
          /\ ~Recurses(item)
          /\ Passes(item)
          /\ cbLog' = IF extract_callback
                      THEN Append(cbLog, _get_unique_path(OutRoot, item))
                      ELSE cbLog
          /\ stack' = ReplaceTop([Top EXCEPT !.todo = @ \ {item}])
    /\ faults' = faults + 1
    /\ UNCHANGED <<args, fs, dirs, pc, result, origin, nextTmp, extractCount>>

\* _move_file_to_destination: shutil.move raises (and has moved nothing); the
\* file is dropped.
FlatMoveFails ==
    /\ InFlat("loop")
    /\ CanFail
    /\ \E item \in Top.todo :
          /\ ~Recurses(item)
          /\ Passes(item)
          /\ stack' = ReplaceTop([Top EXCEPT !.todo = @ \ {item}])
    /\ faults' = faults + 1
    /\ UNCHANGED <<args, fs, dirs, pc, result, cbLog, origin, nextTmp, extractCount>>

\* _move_file_to_destination: moved, then extract_callback raises inside the
\* try block; the handler returns None and the path is not recorded.
FlatCallbackRaises ==
    /\ InFlat("loop")
    /\ extract_callback
    /\ CanFail
    /\ \E item \in Top.todo :
          /\ ~Recurses(item)
          /\ Passes(item)
          /\ LET dest_path == _get_unique_path(OutRoot, item)
             IN  /\ fs' = Move(fs, item, dest_path)
                 /\ origin' = Put(origin, dest_path, [src |-> item, file |-> fs[item]])
                 /\ cbLog' = Append(cbLog, dest_path)
                 /\ stack' = ReplaceTop([Top EXCEPT !.todo = @ \ {item}])
    /\ faults' = faults + 1
    /\ UNCHANGED <<args, dirs, pc, result, nextTmp, extractCount>>

\* The loop is over: the with block removes the scratch directory, the list
\* is returned.
FlatReturn ==
    /\ InFlat("loop")
    /\ Top.todo = {}
    /\ fs' = WithoutTree(fs, Top.temp)
    /\ dirs' = DirsWithoutTree(dirs, Top.temp)
    /\ ReturnToCaller(Top.out)
    /\ UNCHANGED <<args, cbLog, origin, nextTmp, extractCount, faults>>

\* An exception leaves a with block: the scratch directory of the frame is
\* removed and the exception reaches the caller.
FlatUnwind ==
    /\ pc = "raising"
    /\ flatten
    /\ stack # << >>
    /\ fs' = WithoutTree(fs, Top.temp)
    /\ dirs' = DirsWithoutTree(dirs, Top.temp)
    /\ stack' = Rest
    /\ pc' = IF Len(stack) = 1 THEN "raised" ELSE "raising"
    /\ UNCHANGED <<args, result, cbLog, origin, nextTmp, extractCount, faults>>

NextFlat ==
    \/ FlatDepthExhausted \/ FlatExtract \/ FlatExtractFails \/ FlatRecurse
    \/ FlatFilterRaises \/ FlatFiltered \/ FlatPlace \/ FlatMoveFails
    \/ FlatCallbackRaises \/ FlatReturn \/ FlatUnwind

(***************************************************************************)
(* _extract_recursive_nested                                               *)
(***************************************************************************)
InNested(phase) == pc = "running" /\ ~flatten /\ stack # << >> /\ Top.phase = phase

FilesIn(d) == {p \in DOMAIN fs : Parent(p) = d}
Subdirs(d) == {q \in dirs : Len(q) > 1 /\ Parent(q) = d}

\* Unpacking straight into the target directory, without a directory for the archive.
IntoTargetDir(fr) == fr.target_dir

ExtractDir(fr) == fr.target_dir \o <<Stem(Last(fr.archive))>>

NestedDepthExhausted ==
    /\ InNested("call")
    /\ Top.depth >= max_depth
    /\ ReturnToCaller(<< >>)
    /\ UNCHANGED <<args, fs, dirs, cbLog, origin, nextTmp, extractCount, faults>>

\* extract_dir.mkdir raises OSError (the path is too long); the handler of the
\* try block logs it and the empty list is returned.
NestedMkdirFails ==
    /\ InNested("call")
    /\ Top.depth < max_depth
    /\ Len(ExtractDir(Top)) > MaxPathLen
    /\ ReturnToCaller(<< >>)
    /\ UNCHANGED <<args, fs, dirs, cbLog, origin, nextTmp, extractCount, faults>>

\* mkdir, the collaborator unpacks into extract_dir, rglob("*") is created.
NestedExtract ==
    /\ InNested("call")
    /\ Top.depth < max_depth
    /\ Len(ExtractDir(Top)) <= MaxPathLen
    /\ ~ExtractionFails(Top.archive)
    /\ LET extract_dir == ExtractDir(Top)
       IN  /\ fs' = WriteAll(fs, Unpacked(Top.archive, extract_dir))
           /\ dirs' = dirs \cup {extract_dir} \cup UnpackedDirs(Top.archive, extract_dir)
           /\ stack' = ReplaceTop([Top EXCEPT !.phase = "loop", !.extract_dir = extract_dir,
                                              !.pend = <<{extract_dir}>>])
    /\ extractCount' = extractCount + 1
    /\ UNCHANGED <<args, pc, result, cbLog, origin, nextTmp, faults>>

\* mkdir, then the collaborator raises: logged, the empty list is returned.
NestedExtractFails ==
    /\ InNested("call")
    /\ Top.depth < max_depth
    /\ Len(ExtractDir(Top)) <= MaxPathLen
    /\ ExtractionFails(Top.archive)
    /\ dirs' = dirs \cup {ExtractDir(Top)}
    /\ extractCount' = extractCount + 1
    /\ OnExtractionFailure
    /\ UNCHANGED <<args, fs, cbLog, origin, nextTmp, faults>>

\* rglob walks the tree depth first.  pend is its stack: each element is the
\* set of sibling directories still to be listed.  Where rglob lists a
\* directory's subdirectories only after it has yielded the directory's files
\* (legacyGlob), the subdirectories that the current directory has now are
\* pushed when its files are exhausted; otherwise they were pushed when the
\* directory was listed.
RECURSIVE DropEmpty(_)
DropEmpty(groups) ==
    IF groups # << >> /\ groups[Len(groups)] = {}
    THEN DropEmpty(SubSeq(groups, 1, Len(groups) - 1))
    ELSE groups

Listable(fr) ==
    DropEmpty(IF legacyGlob /\ fr.cur # << >> THEN Append(fr.pend, Subdirs(fr.cur)) ELSE fr.pend)

\* rglob lists the next directory: its files are what it yields next.
NestedScan ==
    /\ InNested("loop")
    /\ Top.todo = {}
    /\ Listable(Top) # << >>
    /\ LET groups == Listable(Top)
           n == Len(groups)
       IN  \E d \in groups[n] :
              stack' = ReplaceTop([Top EXCEPT
                          !.todo = FilesIn(d),
                          !.cur = d,
                          !.pend = IF legacyGlob
                                   THEN [groups EXCEPT ![n] = @ \ {d}]
                                   ELSE Append([groups EXCEPT ![n] = @ \ {d}], Subdirs(d))])
    /\ UNCHANGED <<args, fs, dirs, pc, result, cbLog, origin, nextTmp, extractCount, faults>>

\* should_extract raises: the handler of the try block ends the loop.
NestedFilterRaises ==
    /\ InNested("loop")
    /\ should_extract.given
    /\ CanFail
    /\ Top.todo # {}
    /\ faults' = faults + 1
    /\ ReturnToCaller(Top.out)
    /\ UNCHANGED <<args, fs, dirs, cbLog, origin, nextTmp, extractCount>>

\* A variant that deletes the file the filter rejects.
NestedFilteredDeletes ==
    /\ InNested("loop")
    /\ should_extract.given
    /\ \E item \in Top.todo :
          /\ ~FilterAccepts(item)
          /\ fs' = Remove(fs, item)
          /\ stack' = ReplaceTop([Top EXCEPT !.todo = @ \ {item}])
    /\ UNCHANGED <<args, dirs, pc, result, cbLog, origin, nextTmp, extractCount, faults>>

\* Lines 137-139: the filter rejects the entry; it is skipped and left in place.
NestedFiltered ==
    /\ InNested("loop")
    /\ should_extract.given
    /\ \E item \in Top.todo :
          /\ ~FilterAccepts(item)
          /\ stack' = ReplaceTop([Top EXCEPT !.todo = @ \ {item}])
    /\ UNCHANGED <<args, fs, dirs, pc, result, cbLog, origin, nextTmp, extractCount, faults>>

\* A variant that stops recursing one level early.
RecursesNestedEarlyStop(item) == _is_archive(item) /\ Top.depth < max_depth - 2

\* Line 149: the kept entry is an archive and depth remains to recurse into it.
RecursesNested(item) == _is_archive(item) /\ Top.depth < max_depth - 1

\* The file is kept: appended, passed to the callback.
NestedKeep ==
    /\ InNested("loop")
    /\ \E item \in Top.todo :
          /\ Passes(item)
          /\ ~RecursesNested(item)
          /\ stack' = ReplaceTop([Top EXCEPT !.todo = @ \ {item}, !.out = Append(@, item)])
          /\ cbLog' = IF extract_callback THEN Append(cbLog, item) ELSE cbLog
    /\ UNCHANGED <<args, fs, dirs, pc, result, origin, nextTmp, extractCount, faults>>

\* The kept file is an archive and depth remains: it is extracted next to itself.
NestedKeepRecurse ==
    /\ InNested("loop")
    /\ \E item \in Top.todo :
          /\ Passes(item)
          /\ RecursesNested(item)
          /\ stack' = Append(ReplaceTop([Top EXCEPT !.todo = @ \ {item}, !.out = Append(@, item)]),
                             NestedFrame(item, Parent(item), Top.depth + 1))
          /\ cbLog' = IF extract_callback THEN Append(cbLog, item) ELSE cbLog
    /\ UNCHANGED <<args, fs, dirs, pc, result, origin, nextTmp, extractCount, faults>>

\* The file is appended, then extract_callback raises: the handler of the try
\* block ends the loop and the list so far is returned.
NestedCallbackRaises ==
    /\ InNested("loop")
    /\ extract_callback
    /\ CanFail
    /\ \E item \in Top.todo :
          /\ Passes(item)
          /\ cbLog' = Append(cbLog, item)
          /\ ReturnToCaller(Append(Top.out, item))
    /\ faults' = faults + 1
    /\ UNCHANGED <<args, fs, dirs, origin, nextTmp, extractCount>>

\* rglob is exhausted: the list is returned.
NestedReturn ==
    /\ InNested("loop")
    /\ Top.todo = {}
    /\ Listable(Top) = << >>
    /\ ReturnToCaller(Top.out)
    /\ UNCHANGED <<args, fs, dirs, cbLog, origin, nextTmp, extractCount, faults>>

NextNested ==
    \/ NestedDepthExhausted \/ NestedMkdirFails \/ NestedExtract \/ NestedExtractFails
    \/ NestedScan \/ NestedFilterRaises \/ NestedFiltered \/ NestedKeep
    \/ NestedKeepRecurse \/ NestedCallbackRaises \/ NestedReturn

Next == CallMissing \/ CallStart \/ NextFlat \/ NextNested

Spec == Init /\ [][Next]_vars

(***************************************************************************)
(* Properties.                                                             *)
(***************************************************************************)
Range(seq) == {seq[i] : i \in 1..Len(seq)}

\* The call met no failure: no corrupt archive, no raising callable, no
\* failing move.
Clean == faults = 0 /\ corrupt = {}

\* The output directory held nothing before the call.
FreshOutput == \A p \in DOMAIN fs : fs[p].node # 0

\* A.zip holds B.rar, which holds one file.
ChainLayout ==
    contents = [a \in ArchiveNodes |->
                   IF a = RootNode THEN {Entry(NoDir, 2)} ELSE {Entry(NoDir, 3)}]

C2_DepthZeroTopLevel ==
    (pc = "returned" /\ max_depth = 0 /\ Clean /\ ~should_extract.given) =>
        /\ Len(result) = Cardinality(contents[RootNode])
        /\ \A r \in Range(result) : r \in DOMAIN fs /\ fs[r].chain = <<RootNode>>

\* C3 (as claimed): once the root archive exists the call never raises.
C3_NeverRaises == pc = "raised" => InputArchive \notin DOMAIN fs

\* C5: in flatten mode every scratch directory that exists belongs to a
\* helper call that is still running, so none exists once
\* extract_nested_archives has returned or raised.
C5_ScratchRemoved ==
    flatten =>
        /\ \A d \in dirs : Under(TmpRoot, d) =>
              \E i \in 1..Len(stack) : stack[i].phase = "loop" /\ IsPrefix(stack[i].temp, d)
        /\ \A p \in DOMAIN fs : Under(TmpRoot, p) =>
              \E i \in 1..Len(stack) : stack[i].phase = "loop" /\ IsPrefix(stack[i].temp, p)
        /\ pc \in {"returned", "raised"} => stack = << >>

\* An exception escaped extract_nested_archives after two scratch directories
\* had been created, and nothing is left of them.
C5_Witness ==
    /\ flatten /\ pc = "raised" /\ nextTmp >= 2
    /\ \A d \in dirs : ~Under(TmpRoot, d)

\* should_extract, or its absence, lets a file of this name through.
PassesName(name) == ~should_extract.given \/ name \in should_extract.accept

\* What a depth-bounded extraction owes when a corrupt archive yields nothing
\* and everything beside it is still processed.  Flatten mode: the number of
\* files due from archive a processed at depth d.
RECURSIVE ExpectedFlat(_, _), SumFlat(_, _)
ExpectedFlat(a, d) ==
    IF d >= max_depth \/ a \in corrupt THEN 0 ELSE SumFlat(contents[a], d)
SumFlat(entries, d) ==
    IF entries = {} THEN 0
    ELSE LET e == CHOOSE x \in entries : TRUE
         IN  (IF e.node \in ArchiveNodes /\ d + 1 < max_depth
                 THEN ExpectedFlat(e.node, d + 1)
                 ELSE IF PassesName(FileName(e.node)) THEN 1 ELSE 0)
             + SumFlat(entries \ {e}, d)

\* Preserve mode: the paths due from archive a unpacked into extract_dir at
\* depth d.
RECURSIVE ExpectedNested(_, _, _)
ExpectedNested(a, extract_dir, d) ==
    IF d >= max_depth \/ a \in corrupt \/ Len(extract_dir) > MaxPathLen THEN {}
    ELSE UNION {
           LET p == extract_dir \o e.dir \o <<FileName(e.node)>>
           IN  IF ~PassesName(FileName(e.node)) THEN {}
               ELSE {p} \cup
                    (IF e.node \in ArchiveNodes /\ d < max_depth - 1
                        THEN ExpectedNested(e.node, Parent(p) \o <<Stem(FileName(e.node))>>, d + 1)
                        ELSE {}) :
           e \in contents[a]}

RootExtractDir == OutRoot \o <<Stem(FileName(RootNode))>>

RECURSIVE ArchiveOccurrences(_, _), SumOccurrences(_, _)
ArchiveOccurrences(a, d) ==
    IF d >= max_depth THEN 0
    ELSE 1 + (IF a \in corrupt THEN 0 ELSE SumOccurrences(contents[a], d))
SumOccurrences(entries, d) ==
    IF entries = {} THEN 0
    ELSE LET e == CHOOSE x \in entries : TRUE
         IN  (IF e.node \in ArchiveNodes THEN ArchiveOccurrences(e.node, d + 1) ELSE 0)
             + SumOccurrences(entries \ {e}, d)

\* C6: the depth bound alone bounds the work: the recursion is never deeper
\* than max_depth, no file on disk comes out of more than max_depth levels of
\* archive, and the collaborator is invoked at most once per archive
\* occurrence above the bound, whatever the archive holds (itself included).
C6_DepthBoundsExtraction ==
    /\ Len(stack) <= max_depth + 1
    /\ \A p \in DOMAIN fs : Len(fs[p].chain) <= max_depth
    /\ extractCount <= ArchiveOccurrences(RootNode, 0)

\* Every path the frames on the stack have collected so far, and the result.
RECURSIVE Collected(_)
Collected(i) == IF i = 0 THEN << >> ELSE Collected(i - 1) \o stack[i].out
AllCollected == Collected(Len(stack)) \o result
Distinct(seq) == \A i, j \in 1..Len(seq) : i # j => seq[i] # seq[j]

\* C7: in flatten mode the collected paths are pairwise distinct, each is a
\* file of the output directory holding exactly what was moved there from its
\* own source, nothing placed earlier is overwritten, and when nothing fails
\* every file due is in the result, files that share a name included.
C7_NoCollisionLoss ==
    flatten =>
        /\ Distinct(AllCollected)
        /\ \A r \in Range(AllCollected) :
              r \in DOMAIN origin /\ Parent(r) = OutRoot
        /\ \A d \in DOMAIN origin : d \in DOMAIN fs /\ fs[d] = origin[d].file
        /\ (pc = "returned" /\ Clean) => Len(result) = ExpectedFlat(RootNode, 0)

\* Two files named data.bin, one from A.zip and one from B.rar, both returned.
C7_Witness ==
    /\ flatten /\ pc = "returned"
    /\ \E r1, r2 \in Range(result) :
          /\ r1 # r2
          /\ Last(origin[r1].src) = Last(origin[r2].src)
          /\ fs[r1] # fs[r2]
          /\ fs[r1] = origin[r1].file /\ fs[r2] = origin[r2].file

C9_CallbackCompleteness ==
    (pc = "returned" /\ extract_callback) =>
        /\ flatten => Range(cbLog) = Range(result) /\ Len(cbLog) = Len(result)
        /\ ~flatten => Range(result) \subseteq Range(cbLog)

\* The stems of a chain of ancestor archives, outermost first.
StemsOf(chain) == [i \in 1..Len(chain) |-> NameOf(chain[i]).stem]
\* A directory path without the directories that come from inside an archive.
IsArchiveStem(c) == c \in {NameOf(n).stem : n \in ArchiveNodes}
WithoutInternalDirs(d) == OutRoot \o SelectSeq(SubSeq(d, Len(OutRoot) + 1, Len(d)), IsArchiveStem)

C11_MissingArchiveNoEffects ==
    InputArchive \notin DOMAIN fs =>
        /\ pc \in {"start", "raised"}
        /\ dirs \subseteq {TmpRoot, Parent(InputArchive), OutRoot}
        /\ OutRoot \in dirs => \E p \in DOMAIN fs : Parent(p) = OutRoot
        /\ \A p \in DOMAIN fs : Parent(p) = OutRoot /\ fs[p] = File(0, << >>)
        /\ extractCount = 0 /\ nextTmp = 0 /\ faults = 0
        /\ cbLog = << >> /\ origin = << >> /\ result = << >> /\ stack = << >>

\* The call has raised for a missing archive and there is no output directory.
C11_Witness ==
    /\ pc = "raised"
    /\ InputArchive \notin DOMAIN fs
    /\ OutRoot \notin dirs

\* _extract_recursive_flat as a function of the layout: the files (content and
\* ancestry) that the call on archive a, itself unpacked through chain, returns
\* at depth d under the depth bound md when no callable and no move fails.
RECURSIVE FlatContents(_, _, _, _)
FlatContents(a, chain, d, md) ==
    IF d >= md \/ a \in corrupt THEN {}
    ELSE UNION {
           IF e.node \in ArchiveNodes /\ d + 1 < md
           THEN FlatContents(e.node, Append(chain, a), d + 1, md)
           ELSE IF PassesName(FileName(e.node))
                THEN {File(e.node, Append(chain, a))}
                ELSE {} :
           e \in contents[a]}

FlatResultAt(md) == FlatContents(RootNode, << >>, 0, md)
ReturnedFiles == {fs[r] : r \in Range(result)}

\* C12 as stated: what flatten mode returns under max_depth is part of what it
\* returns for the same archive under max_depth + 1 (no failure, no filter,
\* fresh output directory, compared by the names the files had when found).
C12_MonotonicSubset ==
    (pc = "returned" /\ flatten /\ Clean /\ FreshOutput /\ ~should_extract.given) =>
        {Last(origin[r].src) : r \in Range(result)}
            \subseteq {FileName(f.node) : f \in FlatResultAt(max_depth + 1)}

\* The members of the root archive that are archives themselves.
FirstLevelArchives == {e \in contents[RootNode] : e.node \in ArchiveNodes}

\* C13 as stated: in flatten mode with max_depth >= 2 (no failure, no filter)
\* every archive held by the root archive is itself among the returned files,
\* beside what was extracted from it: the result has at least one such path
\* per first-level archive, and with max_depth = 2 and at least one
\* non-empty first-level archive it has more paths than there are first-level
\* archives.
C13_NestedArchivesReturned ==
    (pc = "returned" /\ flatten /\ Clean /\ ~should_extract.given /\ max_depth >= 2) =>
        /\ Cardinality({r \in Range(result) :
                            fs[r].node \in ArchiveNodes /\ fs[r].chain = <<RootNode>>})
               >= Cardinality(FirstLevelArchives)
        /\ (max_depth = 2 /\ \E e \in FirstLevelArchives : contents[e.node] # {}) =>
               Len(result) > Cardinality(FirstLevelArchives)

\* The paths at which preserve mode finds the members of the archive at path r
\* that pass the filter, once it has unpacked r next to itself.
KeptMembers(r) ==
    {Parent(r) \o <<Stem(Last(r))>> \o e.dir \o <<FileName(e.node)>> :
        e \in {x \in contents[fs[r].node] : PassesName(FileName(x.node))}}

OutputFiles(f) == {p \in DOMAIN f : Parent(p) = OutRoot}

\* One step of flatten mode obeys the placement protocol.
PlacementStep ==
    flatten =>
        LET placed == OutputFiles(fs') \ OutputFiles(fs)
            gone   == {p \in DOMAIN fs \ DOMAIN fs' : Under(TmpRoot, p)}
        IN  \* a file arrives in the output root only by the move of a scratch
            \* file that passed the filter, one file per step
            /\ \A d \in placed :
                  /\ placed = {d}
                  /\ \E src \in gone : fs'[d] = fs[src] /\ Passes(src)
            \* the callback is called only in a step that has moved a file, with
            \* the destination of that file, and has not seen that path before
            /\ cbLog' # cbLog =>
                  \E d \in placed : cbLog' = Append(cbLog, d) /\ d \notin Range(cbLog)
            \* a supplied callback is called in every step that moves a file
            /\ (placed # {} /\ extract_callback) => cbLog' # cbLog
            \* a step that drops an entry without moving it (rejected by the
            \* filter, or the move failed) calls nothing, records nothing and
            \* leaves the loop running
            /\ (fs' = fs /\ pc = "running" /\ Len(stack') = Len(stack)
                  /\ stack' # stack /\ Top.phase = "loop") =>
                  /\ cbLog' = cbLog
                  /\ pc' = "running"
                  /\ stack'[Len(stack)].out = Top.out
                  /\ stack'[Len(stack)].todo \subseteq Top.todo

\* C15: in flatten mode a file reaches the output root only by a move of a
\* scratch file that the filter let through; the callback is invoked only
\* together with a successful move, once per moved file, with its final
\* destination; a rejected file and a file whose move failed cause no
\* callback and no change of the output root, are in no result, and the loop
\* goes on with the remaining entries.
C15_PlacementProtocol ==
    /\ [](flatten =>
            /\ Distinct(cbLog)
            /\ extract_callback => Range(cbLog) = DOMAIN origin
            /\ ~extract_callback => cbLog = << >>
            /\ \A d \in Range(cbLog) : d \in DOMAIN fs /\ Parent(d) = OutRoot
            /\ \A r \in Range(AllCollected) : r \in DOMAIN origin)
    /\ [][PlacementStep]_vars

\* One move failed, the other file was placed and reported to the callback.
C15_Witness ==
    /\ pc = "returned" /\ flatten /\ extract_callback /\ faults = 1 /\ corrupt = {}
    /\ max_depth = 2
    /\ contents[RootNode] = {Entry(NoDir, 2), Entry(NoDir, 4)}
    /\ contents[2] = {Entry(NoDir, 3)}
    /\ Len(result) = 1
    /\ cbLog = result
    /\ DOMAIN origin = Range(result)

\* The scratch directories that exist, and the frames that are inside their
\* with block.
ScratchDirs == {d \in dirs : Parent(d) = TmpRoot}
OpenFrames == {i \in 1..Len(stack) : stack[i].phase = "loop"}

\* C16: in flatten mode the scratch directories that exist are exactly those
\* of the helper calls on the stack that have created one, each call its own;
\* the calls form a chain (each one's archive lies in the scratch directory
\* of its caller, one level deeper), so at most max_depth scratch directories
\* exist at once, only the innermost call can still be without one, and the
\* scratch directory of a nested archive is gone when its call has returned,
\* before the caller looks at the next entry.
C16_ScratchChain ==
    flatten =>
        /\ ScratchDirs = {stack[i].temp : i \in OpenFrames}
        /\ \A i, j \in OpenFrames : i # j => stack[i].temp # stack[j].temp
        /\ Cardinality(ScratchDirs) <= max_depth
        /\ \A i \in 1..Len(stack) :
              /\ stack[i].depth = i - 1
              /\ i < Len(stack) => i \in OpenFrames
              /\ i > 1 => /\ Under(stack[i - 1].temp, stack[i].archive)
                          /\ stack[i].archive \notin stack[i - 1].todo
        /\ \A p \in DOMAIN fs : Under(TmpRoot, p) =>
              \E i \in OpenFrames : Under(stack[i].temp, p)

\* Two calls deep: the scratch directories of A.zip and of B.rar exist.
C16_Witness ==
    /\ flatten /\ pc = "running"
    /\ Len(stack) = 2
    /\ OpenFrames = {1, 2}
    /\ Cardinality(ScratchDirs) = 2
    /\ stack[1].todo # {}

\* <directory>/<stem>_<k><suffix> for a file name.
Numbered(directory, name, k) ==
    directory \o <<Stem(name) \o "_" \o ToString(k) \o Suffix(name)>>

\* d is the first free slot for a file called name, in the current state.
FirstFreeSlot(d, name) ==
    IF ~Exists(OutRoot \o <<name>>)
    THEN d = OutRoot \o <<name>>
    ELSE \E k \in 1..(Cardinality(DOMAIN fs) + 1) :
            /\ d = Numbered(OutRoot, name, k)
            /\ ~Exists(d)
            /\ \A j \in 1..(k - 1) : Exists(Numbered(OutRoot, name, j))

\* A.zip holds B.rar twice (at its top and in sub/), B.rar holds data.bin.
TwoSiblingsLayout ==
    contents = [a \in ArchiveNodes |->
                   IF a = RootNode THEN {Entry(NoDir, 2), Entry(SubDir, 2)}
                                   ELSE {Entry(NoDir, 3)}]

\* C17: every destination flatten mode moves a file to is the first free
\* slot for the file's name at that moment: <name> if free, else
\* <stem>_<k><suffix> with the smallest k >= 1 that is free.  So two sibling
\* archives that each hold data.bin come back as data.bin and data_1.bin, and
\* with a data.bin already in the output directory as data_1.bin and
\* data_2.bin.
C17_FirstFreeSlot ==
    /\ [][\A d \in DOMAIN origin' :
              (d \notin DOMAIN origin \/ origin'[d] # origin[d])
                  => FirstFreeSlot(d, Last(origin'[d].src))]_vars
    /\ [](( pc = "returned" /\ flatten /\ Clean /\ ~should_extract.given
            /\ TwoSiblingsLayout /\ max_depth = 2) =>
            Range(result) = IF FreshOutput
                            THEN {OutRoot \o <<"data.bin">>, OutRoot \o <<"data_1.bin">>}
                            ELSE {OutRoot \o <<"data_1.bin">>, OutRoot \o <<"data_2.bin">>})

\* The third data.bin of the output directory was returned as data_2.bin.
C17_Witness ==
    /\ pc = "returned" /\ flatten /\ TwoSiblingsLayout /\ max_depth = 2
    /\ ~FreshOutput
    /\ OutRoot \o <<"data_2.bin">> \in Range(result)
    /\ OutRoot \o <<"data_1.bin">> \in Range(result)
    /\ fs[OutRoot \o <<"data.bin">>] = File(0, << >>)

\* The files unpacked from the archive at path p into the directory preserve
\* mode would give it.
UnpackedFrom(p) ==
    {q \in DOMAIN fs :
        /\ Under(Parent(p) \o <<Stem(Last(p))>>, q)
        /\ fs[q].chain = Append(fs[p].chain, fs[p].node)}

\* C18: in preserve mode a file under the output root that the filter rejects
\* is in no result list, was never passed to the callback and, if it is an
\* archive, has not been unpacked; and no step removes or changes a file
\* under the output root, so the rejected file stays where it was extracted.
C18_RejectedLeftInPlace ==
    /\ []((~flatten /\ should_extract.given) =>
            \A p \in DOMAIN fs :
                (Under(OutRoot, p) /\ ~FilterAccepts(p)) =>
                    /\ p \notin Range(AllCollected)
                    /\ p \notin Range(cbLog)
                    /\ fs[p].node \in ArchiveNodes => UnpackedFrom(p) = {})
    /\ [][~flatten =>
            \A p \in DOMAIN fs : Under(OutRoot, p) => p \in DOMAIN fs' /\ fs'[p] = fs[p]]_vars

\* B.rar was rejected: it lies in out/A, unopened, and is not returned.
C18_Witness ==
    /\ ~flatten /\ pc = "returned" /\ should_extract.given /\ max_depth >= 2
    /\ contents[2] # {} /\ corrupt = {} /\ faults = 0
    /\ OutRoot \o <<"A", "B.rar">> \in DOMAIN fs
    /\ ~FilterAccepts(OutRoot \o <<"A", "B.rar">>)
    /\ contents[RootNode] = {Entry(NoDir, 2), Entry(NoDir, 4)}
    /\ result = <<OutRoot \o <<"A", "data.bin">>>>
    /\ extractCount = 1

\* C19: in preserve mode no path is collected twice, the callback is called
\* at most once per path, and the collaborator runs at most once per archive
\* file (so not more often than there are archive files).
C19_RecordedOnce ==
    ~flatten =>
        /\ Distinct(AllCollected)
        /\ Distinct(cbLog)
        /\ extractCount <= Cardinality({p \in DOMAIN fs : fs[p].node \in ArchiveNodes})

\* C20: in flatten mode no step removes or changes a file of the output
\* root, whether it was there before the call or was placed earlier, and a
\* step adds at most one file to it.
C20_OutputNeverOverwritten ==
    [][flatten =>
          /\ \A p \in OutputFiles(fs) : p \in DOMAIN fs' /\ fs'[p] = fs[p]
          /\ Cardinality(OutputFiles(fs') \ OutputFiles(fs)) <= 1]_vars

\* A file called data.bin was placed beside the data.bin that was already
\* there, which is unchanged.
C20_Witness ==
    /\ flatten /\ ~FreshOutput
    /\ fs[OutRoot \o <<"data.bin">>] = File(0, << >>)
    /\ OutRoot \o <<"data_1.bin">> \in DOMAIN origin
    /\ OutRoot \o <<"data_2.bin">> \in DOMAIN origin
    /\ fs[OutRoot \o <<"data_1.bin">>] # fs[OutRoot \o <<"data_2.bin">>]

====
